---- MODULE Spec2Model ----
(***************************************************************************)
(* The curve-fever server: the room registry, one room with its intent     *)
(* loop, tick loop and session bridges (curve_fever_server/src/main.rs),   *)
(* and the Game it owns (curve_fever_common/src/lib.rs).                   *)
(*                                                                         *)
(* Numbers.  Positions are kept as integers: the model fixes the turn rate *)
(* (rotation_delta) at a quarter turn, so that sin and cos of every        *)
(* heading are -1, 0 or 1 and the displacement of a tick is a whole number *)
(* of cells.  A heading is kept as the count of quarter turns, modulo a    *)
(* full turn.  stop_count is kept in tenths.                               *)
(***************************************************************************)
EXTENDS Integers, Sequences, FiniteSets, TLC

VARIABLES
    rooms,        \* RoomList: code -> the handle installed under it, named
                  \* by the connection whose CreateRoom built the room
    closeq,       \* the close_room channel: codes waiting to be removed
    rlock,        \* the registry's Mutex: the task that holds it, or Unlocked
    creator,      \* the connection whose CreateRoom built the room, or NoConn
    room_name,    \* each connection's local `room_name` in CreateRoom, or ""
    name,         \* Room.name
    connections,  \* Room.connections: SocketAddr -> Uuid
    players,      \* Room.players: Uuid -> the session's connection (its ws sender)
    game,         \* Room.game: players, active_players, single_player, grid
    player,       \* the shared Player objects (Arc<Mutex<Player>>), by uuid
    inq,          \* the room's intent channel: (addr, msg) in flight
    pcRun,        \* RoomHandle::run_room: "off", "recv", "in" (holds the lock), "done"
    pcTick,       \* RoomHandle::tick: "off", "sleep", "in" (holds the lock), "done"
    lock,         \* the room's Mutex: TRUE while held
    cphase,       \* each connection's position in read_stream / run_player
    rb,           \* each session's inbound bridge: "idle", "open", "done"
    rxOpen,       \* each session's ws_rx is alive (not dropped)
    nframes,      \* frames each client has sent to its room so far
    applied,      \* per connection, the sequence numbers on_message has applied
    sent,         \* per connection, what the latest server operation handed it
    heard,        \* per connection whose outbound channel is followed, the
                  \* numbers of the broadcasts the channel was given, oldest first
    last,         \* the latest server operation: what it was and for whom
    ticks         \* Game ticks executed so far

vars == <<rooms, closeq, rlock, creator, room_name, name, connections, players, game,
          player, inq, pcRun, pcTick, lock, cphase, rb, rxOpen, nframes,
          applied, sent, heard, last, ticks>>

----------------------------------------------------------------------------
(* Bounds of the model *)

\* Room::new(.., 500, 400, ..) scaled down: the field of the room, in cells
RoomWidth == 3
RoomHeight == 3
\* frames the joined connections send, all together, in one run
MaxFrames == 2
\* Game ticks in one run
MaxTicks == 2

\* the Game on its own: the players of a game, the line widths Game::new is
\* given (from the server's up), the players that give a turn intent
MaxPlayers == 3
MaxLineWidth == 3
MaxTurns == 1

\* the connections (SocketAddr) the listener accepts.  Connections are
\* interchangeable; the model lets the first of them send the CreateRoom.
Conns == {"a1", "a2", "a3"}
Creators == {"a1"}
\* the connections that take part in the runs with frames
Players == {"a1", "a2"}
\* the codes next_room_name can draw and JoinRoom can name
Codes == {"k1", "k2"}
NoConn == "none"
\* the task main spawns to remove the codes of closed rooms; the other tasks
\* that lock the registry are the connections' read_stream
CloseTask == "close_room"
Unlocked == "unlocked"

(* Program constants *)
LineWidth == 2
SpeedTenths == 8
InvisibleMax == 100
InvisibleLength == 3
NilUuid == 0

Width == RoomWidth * 2
Height == RoomHeight * 2

Range(f) == {f[x] : x \in DOMAIN f}
EmptyFn == [x \in {} |-> 0]

----------------------------------------------------------------------------
(* Player *)

Directions == {"Left", "Right", "Unchanged"}

\* <<sin, cos>> of the headings 0, 1, 2, 3 quarter turns
QuarterTurns == << <<0, 1>>, <<1, 0>>, <<0, -1>>, <<-1, 0>> >>
NHeadings == Len(QuarterTurns)

PlayerNew(uuid, line_width) ==
    [uuid |-> uuid, host |-> FALSE, x |-> 0, y |-> 0, rotation |-> 0,
     direction |-> "Unchanged", line_width |-> line_width,
     stop_count |-> 0, invisible |-> FALSE,
     invisible_count |-> 0, points |-> 0,
     x_prev_range |-> <<0, 0>>, y_prev_range |-> <<0, 0>>]

\* (max as f64 * 0.15) as u32
Limits(max) == (max * 15) \div 100

\* what thread_rng().gen_range(lo..hi) yields.  The model draws the far end
\* of the range for a position and both ends for a heading: a player then
\* either runs into the far wall on its first move or heads for the near one.
SpawnXs == {Width - Limits(Width) - 1}
SpawnYs == {Height - Limits(Height) - 1}
SpawnRotations == {0, NHeadings - 1}

PlayerInitialize(p, rx, ry, rr) ==
    [p EXCEPT !.direction = "Unchanged", !.invisible_count = InvisibleMax,
              !.x = rx, !.y = ry, !.rotation = rr]

\* a position left as computed
ClampNone(v, max) == v

\* Player::tick: the position is held inside the field
Clamp(v, max) == IF v < 0 THEN 0 ELSE IF v > max THEN max ELSE v

Turn(rotation, direction) ==
    CASE direction = "Left" -> (rotation + 1) % NHeadings
      [] direction = "Right" -> (rotation + NHeadings - 1) % NHeadings
      [] OTHER -> rotation

PlayerTick(p) ==
    LET s1 == p.stop_count - 10 IN
    IF s1 > 0 THEN [p EXCEPT !.stop_count = s1]
    ELSE
      LET s2 == 10 * p.line_width - SpeedTenths * p.line_width
          c1 == p.invisible_count - 1
          i1 == IF c1 = 0 THEN TRUE ELSE p.invisible
          c2 == IF c1 = 0 THEN InvisibleMax ELSE c1
          i2 == IF i1 /\ c2 < InvisibleMax - InvisibleLength THEN FALSE ELSE i1
          rot == Turn(p.rotation, p.direction)
          x_change == QuarterTurns[rot + 1][1] * p.line_width
          y_change == QuarterTurns[rot + 1][2] * p.line_width
      IN [p EXCEPT !.stop_count = s2, !.invisible_count = c2, !.invisible = i2,
                   !.rotation = rot,
                   !.x = Clamp(p.x + x_change, Width),
                   !.y = Clamp(p.y + y_change, Height)]

PlayerChangeDirection(p, direction) == [p EXCEPT !.direction = direction]

----------------------------------------------------------------------------
(* Grid and Game *)

Cells == (0 .. Width - 1) \X (0 .. Height - 1)

GridNew == [c \in Cells |-> NilUuid]

GameNew(line_width) ==
    [line_width |-> line_width, players |-> {}, active_players |-> {},
     single_player |-> FALSE, grid |-> GridNew]

\* the closure pixel_range of Game::tick, for the player's line width; <<>> is
\* None.  Twice the bounds are computed, so that half an odd line width
\* stays a whole number.
PixelRange(value, max_value, line_width) ==
    LET lower2 == 2 * value - line_width + 2
        upper2 == 2 * value + line_width - 2
        upper == IF upper2 < 0 THEN 0 ELSE upper2 \div 2
    IN IF lower2 < 0 THEN <<>>
       ELSE IF upper > max_value - 1 THEN <<>>
       ELSE <<lower2 \div 2, upper>>

\* for x in x_start..x_end { for y in y_start..y_end { .. } }: the cells in
\* the order the loops visit them (both ends exclusive)
RECURSIVE WindowCells(_, _, _, _, _)
WindowCells(x, x_end, y_start, y_end, y) ==
    IF x >= x_end THEN <<>>
    ELSE IF y >= y_end THEN WindowCells(x + 1, x_end, y_start, y_end, y_start)
    ELSE <<(<<x, y>>)>> \o WindowCells(x, x_end, y_start, y_end, y + 1)

OutsidePrev(p, cell) ==
    \/ cell[1] < p.x_prev_range[1] \/ cell[1] > p.x_prev_range[2]
    \/ cell[2] < p.y_prev_range[1] \/ cell[2] > p.y_prev_range[2]

\* the loop body of check_pixels over the cells from index i on
RECURSIVE StampCells(_, _, _, _)
StampCells(grid, p, cells, i) ==
    IF i > Len(cells) THEN [ok |-> TRUE, grid |-> grid]
    ELSE IF OutsidePrev(p, cells[i]) /\ grid[cells[i]] # NilUuid
         THEN [ok |-> FALSE, grid |-> grid]
         ELSE StampCells([grid EXCEPT ![cells[i]] = p.uuid], p, cells, i + 1)

\* the closure check_pixels of Game::tick: ok is FALSE for None
CheckPixels(grid, p) ==
    LET xr == PixelRange(p.x, Width, p.line_width)
        yr == PixelRange(p.y, Height, p.line_width)
    IN IF xr = <<>> \/ yr = <<>> THEN [ok |-> FALSE, grid |-> grid, p |-> p]
       ELSE LET r == StampCells(grid, p,
                         WindowCells(xr[1], xr[2], yr[1], yr[2], yr[1]), 1)
            IN IF r.ok
               THEN [ok |-> TRUE, grid |-> r.grid,
                     p |-> [p EXCEPT !.x_prev_range = xr, !.y_prev_range = yr]]
               ELSE [ok |-> FALSE, grid |-> r.grid, p |-> p]

\* a round that runs as long as any player is active
GameRunningWhileAny(g) == g.active_players # {}

\* the rule of a round of several players, whatever the round
GameRunningMulti(g) == Cardinality(g.active_players) > 1

\* Game::running
GameRunning(g) ==
    IF g.single_player THEN g.active_players # {}
    ELSE Cardinality(g.active_players) > 1

\* Game::get_winner: `some` holds the ids iter().next() can yield (none for
\* None), and panics tells that next() yields nothing to unwrap
GetWinner(g) ==
    IF ~GameRunning(g)
    THEN IF g.single_player
         THEN [panics |-> g.players = {}, some |-> g.players]
         ELSE [panics |-> g.active_players = {}, some |-> g.active_players]
    ELSE [panics |-> FALSE, some |-> {}]

GameState(g, ps) ==
    {[id |-> u, x |-> ps[u].x, y |-> ps[u].y, invisible |-> ps[u].invisible] :
        u \in g.active_players}

\* one point for every player, whenever it is eliminated
CalculatePointsFlat(g, ps, uuid) == [ps EXCEPT ![uuid].points = @ + 1]

\* Game::calculate_points
CalculatePoints(g, ps, uuid) ==
    [ps EXCEPT ![uuid].points =
        @ + 2 ^ (Cardinality(g.players) - Cardinality(g.active_players))]

\* a collision check made for every player, visible or not
CheckedAlways(p) == TRUE

\* Game::tick: `if !player.lock().unwrap().invisible`
Checked(p) == ~p.invisible

\* the per-player pass of Game::tick over `order`, the order in which the
\* HashMap yields the active players
RECURSIVE MovePass(_, _, _, _, _)
MovePass(grid, ps, order, i, remove) ==
    IF i > Len(order) THEN [grid |-> grid, ps |-> ps, remove |-> remove]
    ELSE
      LET u == order[i]
          p1 == PlayerTick(ps[u])
      IN IF Checked(p1)
         THEN LET r == CheckPixels(grid, p1)
              IN MovePass(r.grid, [ps EXCEPT ![u] = r.p], order, i + 1,
                          IF r.ok THEN remove ELSE Append(remove, u))
         ELSE MovePass(grid, [ps EXCEPT ![u] = p1], order, i + 1, remove)

\* an elimination that removes the player from `players` as well
RemovePassForgets(g, ps, remove, i) ==
    [g |-> [g EXCEPT !.active_players = @ \ Range(remove),
                     !.players = @ \ Range(remove)],
     ps |-> ps]

\* remove.iter().for_each(..): points, then removal from active_players
RECURSIVE RemovePass(_, _, _, _)
RemovePass(g, ps, remove, i) ==
    IF i > Len(remove) THEN [g |-> g, ps |-> ps]
    ELSE
      LET ps1 == IF ~g.single_player THEN CalculatePoints(g, ps, remove[i])
                 ELSE ps
      IN RemovePass([g EXCEPT !.active_players = @ \ {remove[i]}], ps1,
                    remove, i + 1)

GameTick(g, ps, order) ==
    LET m == MovePass(g.grid, ps, order, 1, <<>>)
        r == RemovePass([g EXCEPT !.grid = m.grid], m.ps, m.remove, 1)
    IN IF ~r.g.single_player /\ Cardinality(r.g.active_players) = 1
       THEN [g |-> r.g,
             ps |-> CalculatePoints(r.g, r.ps,
                        CHOOSE u \in r.g.active_players : TRUE)]
       ELSE r

\* the orders in which a HashMap of the players in S can be iterated
Orders(S) ==
    {o \in [1 .. Cardinality(S) -> S] : \A u \in S : \E i \in DOMAIN o : o[i] = u}

\* Game::initialize with the draws of each player's Player::initialize
GameInitialize(g, ps, draws) ==
    [g |-> [g EXCEPT !.single_player = (Cardinality(g.players) = 1),
                     !.grid = GridNew,
                     !.active_players = g.players],
     ps |-> [u \in DOMAIN ps |->
                IF u \in g.players
                THEN PlayerInitialize(ps[u], draws[u][1], draws[u][2], draws[u][3])
                ELSE ps[u]]]

\* a turn intent accepted for every player the game knows
GameOnMoveAnyone(g, ps, id, direction) ==
    IF id \in DOMAIN ps
    THEN [ok |-> TRUE, ps |-> [ps EXCEPT ![id] = PlayerChangeDirection(@, direction)]]
    ELSE [ok |-> FALSE, ps |-> ps]

\* Game::on_move: ok is FALSE for Err
GameOnMove(g, ps, id, direction) ==
    IF id \in g.active_players
    THEN [ok |-> TRUE, ps |-> [ps EXCEPT ![id] = PlayerChangeDirection(@, direction)]]
    ELSE [ok |-> FALSE, ps |-> ps]

----------------------------------------------------------------------------
(* Messages *)

\* ClientMessage as run_player forwards it: (addr, msg), with the position of
\* the frame in its connection's stream
ClientMsg(from, kind, direction, seq) ==
    [from |-> from, kind |-> kind, direction |-> direction, seq |-> seq]

\* the frames a joined client sends: StartGame, Move(d), and a request that
\* is invalid inside a session
MoveDirections == {"Left", "Right"}
Frames ==
    {[kind |-> "StartGame", direction |-> "Unchanged"],
     [kind |-> "CreateRoom", direction |-> "Unchanged"]}
    \cup {[kind |-> "Move", direction |-> d] : d \in MoveDirections}

\* ServerMessage; every message carries all fields, the unused ones empty
ServerMsg(kind, uuid, host, state, rname, roster) ==
    [kind |-> kind, uuid |-> uuid, host |-> host, state |-> state,
     room_name |-> rname, roster |-> roster]

JoinFailedMsg(rname) == ServerMsg("JoinFailed", NilUuid, NilUuid, {}, rname, {})
JoinSuccessMsg(rname, roster, uuid) ==
    ServerMsg("JoinSuccess", uuid, NilUuid, {}, rname, roster)
NewPlayerMsg(p) == ServerMsg("NewPlayer", p.uuid, NilUuid, {}, "", {})
PlayerDisconnectedMsg(uuid, id_host) ==
    ServerMsg("PlayerDisconnected", uuid, id_host, {}, "", {})
RoundStartedMsg == ServerMsg("RoundStarted", NilUuid, NilUuid, {}, "", {})
GameStateMsg(state) == ServerMsg("GameState", NilUuid, NilUuid, state, "", {})

NoneSent == [c \in Conns |-> <<>>]

Op(op, from, kind, uuid, host) ==
    [op |-> op, from |-> from, kind |-> kind, uuid |-> uuid, host |-> host]

----------------------------------------------------------------------------
(* Room *)

\* a lock that is granted while it is held
TryLockHeld(l) == TRUE

\* room.lock(): the Mutex is acquired only while nobody holds it
TryLock(l) == ~l

\* Room::running
RoomRunning(conns) == DOMAIN conns # {}

\* a broadcast given up at a send that fails
BroadcastAborts(conns, plrs, rx, msg) ==
    [c \in Conns |->
        IF \A d \in DOMAIN conns : conns[d] \in DOMAIN plrs /\ rx[plrs[conns[d]]]
        THEN (IF c \in DOMAIN conns THEN <<msg>> ELSE <<>>) ELSE <<>>]

\* Room::broadcast: what each connection's outbound channel receives.  A
\* send fails when the session's receiver is gone; the failure is logged.
Broadcast(conns, plrs, rx, msg) ==
    [c \in Conns |->
        IF c \in DOMAIN conns /\ conns[c] \in DOMAIN plrs /\ rx[plrs[conns[c]]]
        THEN <<msg>> ELSE <<>>]

Concat(s1, s2) == [c \in Conns |-> s1[c] \o s2[c]]

\* a channel that takes a message at its head
EnqueueFirst(q, n) == <<n>> \o q

\* ws.unbounded_send(msg): the message is put behind what the channel holds
Enqueue(q, n) == Append(q, n)

\* the number of the next broadcast: one more than every number handed out
\* to a followed channel so far
NextNumber(q) ==
    LET ns == UNION {Range(q[c]) : c \in DOMAIN q}
    IN IF ns = {} THEN 1 ELSE 1 + CHOOSE n \in ns : \A m \in ns : m <= n

\* the followed channels after the broadcasts bs, from the i-th on, have
\* been handed out; bs[i][c] is what the i-th hands to connection c
RECURSIVE Deliver(_, _, _)
Deliver(q, bs, i) ==
    IF i > Len(bs) THEN q
    ELSE Deliver([c \in DOMAIN q |->
                    IF bs[i][c] # <<>> THEN Enqueue(q[c], NextNumber(q))
                    ELSE q[c]],
                 bs, i + 1)

\* the calls of Room::broadcast of one operation, in order
Issue(bs) == heard' = Deliver(heard, bs, 1)

\* Uuid::new_v4(): an id no player has
NewUuid == Cardinality(DOMAIN player) + 1

\* every joining player taken for the first
FirstPlayerAlways(conns) == TRUE

\* add_player: "first player is the host"
FirstPlayer(conns) == DOMAIN conns = {}

\* the session table left without the new player
SessionInsertSkipped(plrs, id, c) == plrs

\* add_player: self.players.insert(id, PlayerServer {..})
SessionInsert(plrs, id, c) == [u \in DOMAIN plrs \cup {id} |-> IF u = id THEN c ELSE plrs[u]]

MapInsert(m, k, v) == [x \in DOMAIN m \cup {k} |-> IF x = k THEN v ELSE m[x]]
MapRemove(m, k) == [x \in DOMAIN m \ {k} |-> m[x]]

\* a promotion whose notice still names the departed player as the host
NewHostUnnamed(plrs, id, host) ==
    IF host /\ DOMAIN plrs # {}
    THEN {[promote |-> u, id_host |-> id] : u \in DOMAIN plrs}
    ELSE {[promote |-> NilUuid, id_host |-> id]}

\* on_client_disconnected: the player promoted (NilUuid for none) and the
\* id_host the notice carries, for the departed id and its host flag; plrs
\* is Room.players after the removal
NewHost(plrs, id, host) ==
    IF host
    THEN IF DOMAIN plrs # {}
         THEN {[promote |-> u, id_host |-> u] : u \in DOMAIN plrs}
         ELSE {[promote |-> NilUuid, id_host |-> id]}
    ELSE {[promote |-> NilUuid, id_host |-> id]}

\* a start allowed to every known connection
StartGameAllowedAnyone(conns, ps, c) == c \in DOMAIN conns

\* on_message, StartGame: the connection is known and its player is the host
StartGameAllowed(conns, ps, c) == c \in DOMAIN conns /\ ps[conns[c]].host

\* the two broadcasts the other way round
StartGameSendsReversed(state) == <<RoundStartedMsg, GameStateMsg(state)>>

\* on_start_game: the two broadcasts, in order
StartGameSends(state) == <<GameStateMsg(state), RoundStartedMsg>>

\* a channel that yields its newest message
NextIntentNewest(q) == Len(q)

\* run_room: read.next() yields the oldest message of the channel
NextIntent(q) == 1

Received == inq[NextIntent(inq)]
Remaining == [i \in 1 .. Len(inq) - 1 |->
                 IF i < NextIntent(inq) THEN inq[i] ELSE inq[i + 1]]

SenderUuid(c) == IF c \in DOMAIN connections THEN connections[c] ELSE NilUuid
SenderHost(c) == c \in DOMAIN connections /\ player[connections[c]].host

----------------------------------------------------------------------------
\* the server as main starts it, before the connections in `clients` have
\* sent anything; the other connections have been accepted and have closed.
\* The outbound channels of the connections in `followed` are recorded.
InitFollowing(clients, followed) ==
    /\ rooms = EmptyFn
    /\ closeq = <<>>
    /\ rlock = Unlocked
    /\ creator = NoConn
    /\ room_name = [c \in Conns |-> ""]
    /\ name = ""
    /\ connections = EmptyFn
    /\ players = EmptyFn
    /\ game = GameNew(LineWidth)
    /\ player = EmptyFn
    /\ inq = <<>>
    /\ pcRun = "off"
    /\ pcTick = "off"
    /\ lock = FALSE
    /\ cphase = [c \in Conns |-> IF c \in clients THEN "new" ELSE "ended"]
    /\ rb = [c \in Conns |-> "idle"]
    /\ rxOpen = [c \in Conns |-> TRUE]
    /\ nframes = [c \in Conns |-> 0]
    /\ applied = [c \in Conns |-> <<>>]
    /\ sent = NoneSent
    /\ heard = [c \in followed |-> <<>>]
    /\ last = Op("none", NoConn, "", NilUuid, FALSE)
    /\ ticks = 0

InitWith(clients) == InitFollowing(clients, {})

\* two clients, which also send frames once they have joined
Init == InitWith(Players)

\* three clients, which create or join the room and leave it
LobbyInit == InitWith(Conns)

roomVars == <<name, connections, players, game, player, ticks>>
taskVars == <<inq, pcRun, pcTick, lock, applied>>
regVars == <<rooms, closeq, rlock, creator, room_name>>
sessVars == <<rb, rxOpen, nframes>>

\* every candidate, vacant or not
NextRoomNameAny(rs) == Codes

\* next_room_name: the candidates that are vacant in the registry; the loop
\* draws again on any other
NextRoomName(rs) == {k \in Codes : k \notin DOMAIN rs}

\* the registry holds the handle of the room that connection c created
Registered(c) == \E k \in DOMAIN rooms : rooms[k] = c

\* a guard of the registry that its task keeps after the statement
RegistryGuardKept(t) == t

\* rooms.lock().unwrap() is a temporary of the statement that locks the
\* registry: the holder of the registry's lock when the statement of task t
\* has ended
RegistryGuard(t) == Unlocked

\* rooms.lock(): the Mutex is acquired while no other task holds it
TryRegistry(t) == rlock \in {Unlocked, t}

\* rooms.lock() is granted to task t, which has read a CreateRoom or a
\* JoinRoom, or has received a code on close_room.  (The statement that
\* locks the registry is one step, or two when the lock is granted in this
\* step of its own.)
RegistryLock(t) ==
    /\ rlock = Unlocked
    /\ \/ t \in Conns /\ cphase[t] = "new"
       \/ t = CloseTask /\ closeq # <<>>
    /\ rlock' = t
    /\ UNCHANGED <<rooms, closeq, creator, room_name, roomVars, taskVars,
                   cphase, sessVars, sent, last>>
    /\ UNCHANGED heard

\* read_stream, CreateRoom: Room::new, the handle installed under a fresh
\* code.  The registry's guard is held from the first draw to the insertion.
CreateRoom(c) ==
    /\ c \in Creators
    /\ cphase[c] = "new"
    /\ creator = NoConn
    /\ TryRegistry(c)
    /\ rlock' = RegistryGuard(c)
    /\ \E k \in NextRoomName(rooms) :
          /\ rooms' = MapInsert(rooms, k, c)
          /\ room_name' = [room_name EXCEPT ![c] = k]
    /\ creator' = c
    /\ name' = "Testing Room"
    /\ cphase' = [cphase EXCEPT ![c] = "created"]
    /\ UNCHANGED <<closeq, connections, players, game, player, ticks,
                   taskVars, sessVars, sent, last>>
    /\ UNCHANGED heard

\* read_stream, CreateRoom: handle.room.lock().unwrap().name = room_name
SetRoomName(c) ==
    /\ cphase[c] = "created"
    /\ TryLock(lock)
    /\ name' = room_name[c]
    /\ cphase' = [cphase EXCEPT ![c] = "joining"]
    /\ UNCHANGED <<regVars, connections, players, game, player, ticks,
                   taskVars, sessVars, sent, last>>
    /\ UNCHANGED heard

\* a JoinFailed written to every connection
JoinFailedSendsAll(c, k) == [d \in Conns |-> <<JoinFailedMsg(k)>>]

\* read_stream, JoinRoom: JoinFailed is written to the requester's stream
JoinFailedSends(c, k) == [NoneSent EXCEPT ![c] = <<JoinFailedMsg(k)>>]

\* read_stream, JoinRoom: the handle is copied out of the registry, or
\* JoinFailed is written to the stream.  A connection that finds the handle
\* of a room elsewhere runs its session there.
JoinRoom(c, k) ==
    /\ cphase[c] = "new"
    /\ TryRegistry(c)
    /\ rlock' = RegistryGuard(c)
    /\ IF k \in DOMAIN rooms
       THEN /\ cphase' = [cphase EXCEPT ![c] = IF rooms[k] = creator
                                               THEN "joining" ELSE "ended"]
            /\ UNCHANGED <<sent, last>>
       ELSE /\ sent' = JoinFailedSends(c, k)
            /\ last' = Op("join_failed", c, "JoinRoom", NilUuid, FALSE)
            /\ UNCHANGED cphase
    /\ UNCHANGED <<rooms, closeq, creator, room_name, roomVars, taskVars,
                   sessVars>>
    /\ UNCHANGED heard

\* run_player: handle.room.lock()
AddPlayerLock(c) ==
    /\ cphase[c] = "joining"
    /\ TryLock(lock)
    /\ lock' = TRUE
    /\ cphase' = [cphase EXCEPT ![c] = "adding"]
    /\ UNCHANGED <<regVars, roomVars, inq, pcRun, pcTick, applied, sessVars,
                   sent, last>>
    /\ UNCHANGED heard

\* Room::add_player under the lock, and the lock's release.  The creator's
\* task polls tick() and run_room() first and reaches their first lock only
\* after its own add_player has returned.
AddPlayer(c) ==
    /\ cphase[c] = "adding"
    /\ LET id == NewUuid
           p == [PlayerNew(id, game.line_width) EXCEPT !.host = FirstPlayer(connections)]
           conns1 == MapInsert(connections, c, id)
           ok == rxOpen[c]
           plrs1 == IF ok THEN SessionInsert(players, id, c) ELSE players
       IN /\ game' = [game EXCEPT !.players = @ \cup {id}]
          /\ player' = MapInsert(player, id, p)
          /\ connections' = conns1
          /\ players' = plrs1
          /\ sent' = IF ok
                     THEN Concat([NoneSent EXCEPT ![c] =
                                    <<JoinSuccessMsg(name, DOMAIN players, id)>>],
                                 Broadcast(conns1, plrs1, rxOpen, NewPlayerMsg(p)))
                     ELSE NoneSent
          /\ Issue(IF ok
                   THEN <<Broadcast(conns1, plrs1, rxOpen, NewPlayerMsg(p))>>
                   ELSE <<>>)
          /\ cphase' = [cphase EXCEPT ![c] = IF ok THEN "joined" ELSE "ended"]
          /\ rb' = [rb EXCEPT ![c] = IF ok THEN "open" ELSE "done"]
          /\ last' = Op("add_player", c, IF ok THEN "Ok" ELSE "Err", id, p.host)
    /\ lock' = FALSE
    /\ pcRun' = IF c = creator THEN "recv" ELSE pcRun
    /\ pcTick' = IF c = creator THEN "sleep" ELSE pcTick
    /\ UNCHANGED <<regVars, name, ticks, inq, applied, rxOpen, nframes>>

----------------------------------------------------------------------------
(* Session bridges *)

RECURSIVE SumOver(_, _)
SumOver(f, S) ==
    IF S = {} THEN 0
    ELSE LET x == CHOOSE y \in S : TRUE IN f[x] + SumOver(f, S \ {x})

\* the frames the clients have sent so far
FramesSent == SumOver(nframes, Conns)

\* run_player, rb: the next frame of the stream is decoded and forwarded to
\* the room's channel; the forward ends with an error once run_room has
\* dropped the receiver
ClientFrame(c, f) ==
    /\ cphase[c] = "joined"
    /\ rb[c] = "open"
    /\ FramesSent < MaxFrames
    /\ IF pcRun # "done"
       THEN /\ inq' = Append(inq, ClientMsg(c, f.kind, f.direction, nframes[c] + 1))
            /\ nframes' = [nframes EXCEPT ![c] = @ + 1]
            /\ UNCHANGED rb
       ELSE /\ rb' = [rb EXCEPT ![c] = "done"]
            /\ UNCHANGED <<inq, nframes>>
    /\ UNCHANGED <<regVars, roomVars, pcRun, pcTick, lock, applied, cphase,
                   rxOpen, sent, last>>
    /\ UNCHANGED heard

\* run_player, rb: the stream ends or yields a frame that is not binary or
\* not decodable: take_while stops and the chained Disconnected is forwarded
StreamEnd(c) ==
    /\ cphase[c] = "joined"
    /\ rb[c] = "open"
    /\ IF pcRun # "done"
       THEN inq' = Append(inq, ClientMsg(c, "Disconnected", "Unchanged",
                                         nframes[c] + 1))
       ELSE UNCHANGED inq
    /\ rb' = [rb EXCEPT ![c] = "done"]
    /\ UNCHANGED <<regVars, roomVars, pcRun, pcTick, lock, applied, cphase,
                   rxOpen, nframes, sent, last>>
    /\ UNCHANGED heard

\* run_player, ra: writing to the socket fails, the forward ends and ws_rx
\* is dropped
SinkError(c) ==
    /\ cphase[c] = "joined"
    /\ rxOpen[c]
    /\ rxOpen' = [rxOpen EXCEPT ![c] = FALSE]
    /\ UNCHANGED <<regVars, roomVars, taskVars, cphase, rb, nframes, sent, last>>
    /\ UNCHANGED heard

----------------------------------------------------------------------------
(* The intent loop *)

\* run_room: a message is received and the room is locked
RunRoomLock ==
    /\ pcRun = "recv"
    /\ inq # <<>>
    /\ TryLock(lock)
    /\ lock' = TRUE
    /\ pcRun' = "in"
    /\ UNCHANGED <<regVars, roomVars, inq, pcTick, applied, cphase, sessVars,
                   sent, last>>
    /\ UNCHANGED heard

\* the end of on_message: self.running() decides whether run_room goes on;
\* when it ends, the receiver and what it holds are dropped
OnMessageReturns(conns) ==
    /\ lock' = FALSE
    /\ applied' = [applied EXCEPT ![Received.from] = Append(@, Received.seq)]
    /\ last' = Op("on_message", Received.from, Received.kind,
                  SenderUuid(Received.from), SenderHost(Received.from))
    /\ IF RoomRunning(conns)
       THEN pcRun' = "recv" /\ inq' = Remaining
       ELSE pcRun' = "done" /\ inq' = <<>>

\* on_message, ClientMessage::Move
OnMove ==
    /\ pcRun = "in"
    /\ Received.kind = "Move"
    /\ player' = IF Received.from \in DOMAIN connections
                 THEN GameOnMove(game, player, connections[Received.from],
                                 Received.direction).ps
                 ELSE player
    /\ sent' = NoneSent
    /\ OnMessageReturns(connections)
    /\ UNCHANGED <<regVars, name, connections, players, game, ticks, pcTick,
                   cphase, sessVars>>
    /\ UNCHANGED heard

\* on_message, ClientMessage::CreateRoom | ClientMessage::JoinRoom
OnInvalid ==
    /\ pcRun = "in"
    /\ Received.kind \in {"CreateRoom", "JoinRoom"}
    /\ sent' = NoneSent
    /\ OnMessageReturns(connections)
    /\ UNCHANGED <<regVars, roomVars, pcTick, cphase, sessVars>>
    /\ UNCHANGED heard

\* a notice broadcast for an address that is not connected
UnknownLeaveNotified(conns, plrs, rx) ==
    Broadcast(conns, plrs, rx, PlayerDisconnectedMsg(NilUuid, NilUuid))

\* on_client_disconnected: connections.remove(&addr) yields None and nothing
\* is sent
UnknownLeave(conns, plrs, rx) == NoneSent

\* on_message, ClientMessage::Disconnected: Room::on_client_disconnected.
\* Removing the session drops its sender: the session's ra ends and drops
\* ws_rx.
OnDisconnected ==
    /\ pcRun = "in"
    /\ Received.kind = "Disconnected"
    /\ LET addr == Received.from IN
       IF addr \in DOMAIN connections
       THEN LET id == connections[addr]
                host == player[id].host
                conns1 == MapRemove(connections, addr)
                plrs1 == MapRemove(players, id)
            IN \E h \in NewHost(plrs1, id, host) :
                  /\ connections' = conns1
                  /\ players' = plrs1
                  /\ player' = IF h.promote # NilUuid
                               THEN [player EXCEPT ![h.promote].host = TRUE]
                               ELSE player
                  /\ sent' = Broadcast(conns1, plrs1, rxOpen,
                                       PlayerDisconnectedMsg(id, h.id_host))
                  /\ Issue(<<Broadcast(conns1, plrs1, rxOpen,
                                       PlayerDisconnectedMsg(id, h.id_host))>>)
                  /\ rxOpen' = [rxOpen EXCEPT ![players[id]] = FALSE]
                  /\ OnMessageReturns(conns1)
       ELSE /\ UNCHANGED <<connections, players, player, rxOpen>>
            /\ sent' = UnknownLeave(connections, players, rxOpen)
            /\ Issue(<<>>)
            /\ OnMessageReturns(connections)
    /\ UNCHANGED <<regVars, name, game, ticks, pcTick, cphase, rb, nframes>>

\* the draws of Player::initialize for every player of the game
Draws(S) == [S -> SpawnXs \X SpawnYs \X SpawnRotations]

\* on_message, ClientMessage::StartGame: Room::on_start_game for the host
OnStartGame ==
    /\ pcRun = "in"
    /\ Received.kind = "StartGame"
    /\ IF StartGameAllowed(connections, player, Received.from)
       THEN \E draws \in Draws(game.players) :
               LET r == GameInitialize(game, player, draws) IN
               /\ game' = r.g
               /\ player' = r.ps
               /\ sent' = [c \in Conns |->
                            Broadcast(connections, players, rxOpen,
                                      StartGameSends(GameState(r.g, r.ps))[1])[c]
                            \o Broadcast(connections, players, rxOpen,
                                      StartGameSends(GameState(r.g, r.ps))[2])[c]]
               /\ Issue(<<Broadcast(connections, players, rxOpen,
                                    StartGameSends(GameState(r.g, r.ps))[1]),
                          Broadcast(connections, players, rxOpen,
                                    StartGameSends(GameState(r.g, r.ps))[2])>>)
       ELSE /\ UNCHANGED <<game, player>>
            /\ sent' = NoneSent
            /\ Issue(<<>>)
    /\ OnMessageReturns(connections)
    /\ UNCHANGED <<regVars, name, connections, players, ticks, pcTick, cphase,
                   sessVars>>

----------------------------------------------------------------------------
(* The tick loop *)

\* tick: the timer has fired and the room is locked.  The run is cut after
\* MaxTicks ticks of the Game.
TickLock ==
    /\ pcTick = "sleep"
    /\ TryLock(lock)
    /\ RoomRunning(connections) /\ GameRunning(game) => ticks < MaxTicks
    /\ lock' = TRUE
    /\ pcTick' = "in"
    /\ UNCHANGED <<regVars, roomVars, inq, pcRun, applied, cphase, sessVars,
                   sent, last>>
    /\ UNCHANGED heard

\* Room::tick_once under the lock, and the lock's release
TickOnce ==
    /\ pcTick = "in"
    /\ IF RoomRunning(connections)
       THEN /\ IF GameRunning(game)
               THEN \E order \in Orders(game.active_players) :
                       LET r == GameTick(game, player, order) IN
                       /\ game' = r.g
                       /\ player' = r.ps
                       /\ ticks' = ticks + 1
                       /\ sent' = Broadcast(connections, players, rxOpen,
                                            GameStateMsg(GameState(r.g, r.ps)))
                       /\ Issue(<<Broadcast(connections, players, rxOpen,
                                            GameStateMsg(GameState(r.g, r.ps)))>>)
                       /\ last' = Op("tick_once", NoConn, "GameState", NilUuid, FALSE)
               ELSE /\ UNCHANGED <<game, player, ticks>>
                    /\ sent' = NoneSent
                    /\ Issue(<<>>)
                    /\ last' = Op("tick_once", NoConn, "", NilUuid, FALSE)
            /\ pcTick' = "sleep"
       ELSE /\ UNCHANGED <<game, player, ticks>>
            /\ sent' = NoneSent
            /\ Issue(<<>>)
            /\ last' = Op("tick_once", NoConn, "", NilUuid, FALSE)
            /\ pcTick' = "done"
    /\ lock' = FALSE
    /\ UNCHANGED <<regVars, name, connections, players, inq, pcRun, applied,
                   cphase, sessVars>>

----------------------------------------------------------------------------
(* Closing the room *)

\* run_player's ra has ended: ws_rx is dropped
RaDone(c) == ~rxOpen[c]

\* read_stream, CreateRoom: the join of tick, run_room and the creator's
\* run_player has completed; the code is sent on close_room
RoomFinished ==
    /\ creator # NoConn
    /\ cphase[creator] = "joined"
    /\ pcTick = "done"
    /\ pcRun = "done"
    /\ rb[creator] = "done"
    /\ RaDone(creator)
    /\ closeq' = Append(closeq, room_name[creator])
    /\ cphase' = [cphase EXCEPT ![creator] = "ended"]
    /\ UNCHANGED <<rooms, rlock, creator, room_name, roomVars, taskVars,
                   sessVars, sent, last>>
    /\ UNCHANGED heard

\* main: the close_room task removes the code it receives
CloseRoom ==
    /\ closeq # <<>>
    /\ TryRegistry(CloseTask)
    /\ rlock' = RegistryGuard(CloseTask)
    /\ rooms' = [k \in DOMAIN rooms \ {Head(closeq)} |-> rooms[k]]
    /\ closeq' = Tail(closeq)
    /\ UNCHANGED <<creator, room_name, roomVars, taskVars, cphase, sessVars,
                   sent, last>>
    /\ UNCHANGED heard

----------------------------------------------------------------------------
Next ==
    \/ \E c \in Conns : CreateRoom(c)
    \/ \E c \in Conns : SetRoomName(c)
    \/ \E c \in Conns, k \in Codes : JoinRoom(c, k)
    \/ \E c \in Conns : AddPlayerLock(c)
    \/ \E c \in Conns : AddPlayer(c)
    \/ \E c \in Conns, f \in Frames : ClientFrame(c, f)
    \/ \E c \in Conns : StreamEnd(c)
    \/ \E c \in Conns : SinkError(c)
    \/ RunRoomLock
    \/ OnMove
    \/ OnInvalid
    \/ OnDisconnected
    \/ OnStartGame
    \/ TickLock
    \/ TickOnce
    \/ RoomFinished
    \/ CloseRoom

Spec == Init /\ [][Next]_vars

\* the server with clients that only create or join the room and leave it
LobbyNext ==
    \/ \E c \in Conns : CreateRoom(c)
    \/ \E c \in Conns : SetRoomName(c)
    \/ \E c \in Conns, k \in Codes : JoinRoom(c, k)
    \/ \E c \in Conns : AddPlayerLock(c)
    \/ \E c \in Conns : AddPlayer(c)
    \/ \E c \in Conns : StreamEnd(c)
    \/ \E c \in Conns : SinkError(c)
    \/ RunRoomLock
    \/ OnDisconnected
    \/ TickLock
    \/ TickOnce
    \/ RoomFinished
    \/ CloseRoom

LobbySpec == LobbyInit /\ [][LobbyNext]_vars

\* the same server, with the registry's lock granted in a step of its own
LockNext ==
    \/ LobbyNext
    \/ \E t \in Conns \cup {CloseTask} : RegistryLock(t)

LockSpec == LobbyInit /\ [][LockNext]_vars

\* Every task of the server that can take a step eventually takes it, a task
\* waiting for the room's lock eventually gets it, and every client's stream
\* eventually ends.
Fairness ==
    /\ \A c \in Conns : WF_vars(SetRoomName(c))
    /\ \A c \in Conns : SF_vars(AddPlayerLock(c))
    /\ \A c \in Conns : WF_vars(AddPlayer(c))
    /\ \A c \in Conns : WF_vars(StreamEnd(c))
    /\ SF_vars(RunRoomLock)
    /\ WF_vars(OnDisconnected)
    /\ SF_vars(TickLock)
    /\ WF_vars(TickOnce)
    /\ WF_vars(RoomFinished)
    /\ WF_vars(CloseRoom)

FairLobbySpec == LobbySpec /\ Fairness

\* The room's lock is granted fairly: a task that keeps asking for it
\* eventually gets it, and a task that holds it finishes its operation.  The
\* clients are free to send or not, and to stay.  tick_once is in progress
\* exactly while pcTick = "in" and every TickOnce step leaves that position,
\* so weak fairness of TickOnce is that pcTick is other than "in" again and
\* again.
LockFairness ==
    /\ \A c \in Conns : SF_vars(AddPlayerLock(c))
    /\ \A c \in Conns : WF_vars(AddPlayer(c))
    /\ SF_vars(RunRoomLock)
    /\ WF_vars(OnMove)
    /\ WF_vars(OnDisconnected)
    /\ WF_vars(OnStartGame)
    /\ SF_vars(TickLock)
    /\ []<>(pcTick # "in")

\* the frames of clients that start rounds and turn one way
RoundFrames == {f \in Frames : f.kind = "StartGame" \/ f.direction = "Left"}

\* the server with two clients that join, start rounds, turn and leave, and
\* whose sockets take every write
RoundNext ==
    \/ \E c \in Conns : CreateRoom(c)
    \/ \E c \in Conns : SetRoomName(c)
    \/ \E c \in Conns, k \in Codes : JoinRoom(c, k)
    \/ \E c \in Conns : AddPlayerLock(c)
    \/ \E c \in Conns : AddPlayer(c)
    \/ \E c \in Conns, f \in RoundFrames : ClientFrame(c, f)
    \/ \E c \in Conns : StreamEnd(c)
    \/ RunRoomLock
    \/ OnMove
    \/ OnDisconnected
    \/ OnStartGame
    \/ TickLock
    \/ TickOnce
    \/ RoomFinished
    \/ CloseRoom

FairSpec == Init /\ [][RoundNext]_vars /\ LockFairness

\* two clients that join, start rounds, turn and leave, with the outbound
\* channels of both followed
QueueInit == InitFollowing(Players, Players)

QueueSpec == QueueInit /\ [][RoundNext]_vars

\* ClientMessage::Disconnected, sent by a client as a frame of its own
LeaveFrames == {[kind |-> "Disconnected", direction |-> "Unchanged"]}

\* the server with two clients that create or join the room, send Disconnected
\* frames and leave
LeaveNext ==
    \/ LobbyNext
    \/ \E c \in Conns, f \in LeaveFrames : ClientFrame(c, f)

LeaveSpec == Init /\ [][LeaveNext]_vars

----------------------------------------------------------------------------
(* The Game on its own: Game::new with the line width of the caller's      *)
(* choice, the players inserted as add_player inserts them, and then       *)
(* initialize, tick while running() as tick_once calls it, and on_move.    *)

LineWidths == LineWidth .. MaxLineWidth

\* what gen_range(lo..hi) yields for a position.  The limits keep a spawn
\* well off the walls of the real field; on the scaled field the model draws
\* the high end of the range and the value one off the low end, which are
\* off the walls too.
SpawnEnds(max) == {Limits(max) + 1, max - Limits(max) - 1}

DrawKey(d) == (d[1] * (Height + 1) + d[2]) * NHeadings + d[3]

\* the draws of Player::initialize for the players in S.  The players are
\* interchangeable (Tick takes them in every order), so the model keeps of
\* the draws that differ only in who drew what the one in ascending order.
GameDraws(S) ==
    {draws \in [S -> SpawnEnds(Width) \X SpawnEnds(Height) \X (0 .. NHeadings - 1)] :
        \A u, v \in S : u < v => DrawKey(draws[u]) <= DrawKey(draws[v])}

\* read_stream, CreateRoom by a connection whose room is not the one
\* followed here: its handle is installed under a fresh code all the same
CreateRoomElsewhere(c) ==
    /\ c \notin Creators
    /\ cphase[c] = "new"
    /\ TryRegistry(c)
    /\ rlock' = RegistryGuard(c)
    /\ \E k \in NextRoomName(rooms) :
          /\ rooms' = MapInsert(rooms, k, c)
          /\ room_name' = [room_name EXCEPT ![c] = k]
    /\ cphase' = [cphase EXCEPT ![c] = "elsewhere"]
    /\ UNCHANGED <<closeq, creator, roomVars, taskVars, sessVars, sent, last>>
    /\ UNCHANGED heard

\* read_stream, CreateRoom: the tasks of a room elsewhere have completed and
\* its code is sent on close_room
RoomFinishedElsewhere(c) ==
    /\ cphase[c] = "elsewhere"
    /\ closeq' = Append(closeq, room_name[c])
    /\ cphase' = [cphase EXCEPT ![c] = "ended"]
    /\ UNCHANGED <<rooms, rlock, creator, room_name, roomVars, taskVars,
                   sessVars, sent, last>>
    /\ UNCHANGED heard

\* the server with clients that create rooms of their own, or join or create
\* the room followed here, and leave
RegistryNext ==
    \/ LobbyNext
    \/ \E c \in Conns : CreateRoomElsewhere(c)
    \/ \E c \in Conns : RoomFinishedElsewhere(c)

RegistrySpec == LobbyInit /\ [][RegistryNext]_vars

\* no room is open
NoRoom ==
    /\ rooms = EmptyFn
    /\ closeq = <<>>
    /\ rlock = Unlocked
    /\ creator = NoConn
    /\ room_name = [c \in Conns |-> ""]
    /\ name = ""
    /\ connections = EmptyFn
    /\ players = EmptyFn
    /\ inq = <<>>
    /\ pcRun = "off"
    /\ pcTick = "off"
    /\ lock = FALSE
    /\ cphase = [c \in Conns |-> "ended"]
    /\ rb = [c \in Conns |-> "idle"]
    /\ rxOpen = [c \in Conns |-> TRUE]
    /\ nframes = [c \in Conns |-> 0]
    /\ applied = [c \in Conns |-> <<>>]
    /\ sent = NoneSent
    /\ heard = EmptyFn
    /\ ticks = 0

\* Game::new and n players inserted
GameWith(lw, n) == [GameNew(lw) EXCEPT !.players = 1 .. n]
PlayersOf(lw, n) == [u \in 1 .. n |-> PlayerNew(u, lw)]

\* a game of n players, none of which has been initialized
GameInitWith(lw, n) ==
    /\ NoRoom
    /\ game = GameWith(lw, n)
    /\ player = PlayersOf(lw, n)
    /\ last = Op("none", NoConn, "", NilUuid, FALSE)

GameInit == \E lw \in LineWidths, n \in 1 .. MaxPlayers : GameInitWith(lw, n)

gameFrame == <<regVars, name, connections, players, taskVars, cphase, sessVars,
               sent, heard>>

\* Game::initialize, once
Initialize ==
    /\ last.op = "none"
    /\ \E draws \in GameDraws(game.players) :
          LET r == GameInitialize(game, player, draws) IN
          /\ game' = r.g
          /\ player' = r.ps
    /\ last' = Op("initialize", NoConn, "", NilUuid, TRUE)
    /\ UNCHANGED <<gameFrame, ticks>>

\* Game::tick, called while Game::running as tick_once calls it
Tick ==
    /\ GameRunning(game)
    /\ ticks < MaxTicks
    /\ \E order \in Orders(game.active_players) :
          LET r == GameTick(game, player, order) IN
          /\ game' = r.g
          /\ player' = r.ps
    /\ ticks' = ticks + 1
    /\ last' = Op("tick", NoConn, "", NilUuid, TRUE)
    /\ UNCHANGED gameFrame

\* the players that have a turn intent
Turning == {u \in DOMAIN player : player[u].direction # "Unchanged"}

\* Game::on_move for an id the game knows or does not know; last.host is
\* TRUE for Ok
Move(id, direction) ==
    /\ last.op # "none"
    /\ Cardinality(Turning) < MaxTurns
    /\ LET r == GameOnMove(game, player, id, direction) IN
          /\ player' = r.ps
          /\ last' = Op("on_move", NoConn, direction, id, r.ok)
    /\ UNCHANGED <<gameFrame, game, ticks>>

GameNext ==
    \/ Initialize
    \/ Tick
    \/ \E id \in 1 .. MaxPlayers, d \in MoveDirections : Move(id, d)

GameSpec == GameInit /\ [][GameNext]_vars

----------------------------------------------------------------------------
(* The Game with players that blink.  Player::initialize does not reset     *)
(* `invisible`: a player that was invisible when the last round ended, or   *)
(* whose public flag the caller has set, starts the round invisible.  At    *)
(* the server's line width no cell is ever marked, so that a round can      *)
(* also have lasted any number of moves with the grid clear: there the      *)
(* model also starts a player one move before it turns invisible, and one   *)
(* move before it turns visible again.                                      *)

\* <<invisible, invisible_count>> of a player
BlinkStates(lw) ==
    {<<FALSE, InvisibleMax>>, <<TRUE, InvisibleMax>>}
    \cup (IF lw = LineWidth
          THEN {<<FALSE, 1>>, <<TRUE, InvisibleMax - InvisibleLength>>}
          ELSE {})

\* a round that has lasted until players blink; op is the latest operation
\* known of the game
BlinkInitWith(op) ==
    \E lw \in LineWidths, n \in 1 .. MaxPlayers - 1 :
      \E draws \in GameDraws(1 .. n), blink \in [1 .. n -> BlinkStates(lw)] :
        LET r == GameInitialize(GameWith(lw, n), PlayersOf(lw, n), draws) IN
        /\ NoRoom
        /\ game = r.g
        /\ player = [u \in 1 .. n |->
                        [r.ps[u] EXCEPT !.invisible = blink[u][1],
                                        !.invisible_count = blink[u][2]]]
        /\ last = Op(op, NoConn, "", NilUuid, TRUE)

BlinkInit == BlinkInitWith("initialize")

BlinkNext ==
    \/ Tick
    \/ \E id \in 1 .. MaxPlayers, d \in MoveDirections : Move(id, d)

BlinkSpec == BlinkInit /\ [][BlinkNext]_vars

\* a round that has lasted until players blink, and is then initialized
\* again or goes on
RestartInit == BlinkInitWith("none")

RestartSpec == RestartInit /\ [][GameNext]_vars

----------------------------------------------------------------------------
(* Claims *)

Connected == DOMAIN connections
Hosts == {u \in Range(connections) : player[u].host}

\* the step in which on_message returns
OnMessageStep == pcRun = "in" /\ pcRun' # "in"

\* the operations on the room that are in progress: between taking the
\* room's lock and releasing it
InProgress ==
    {c \in Conns : cphase[c] = "adding"}
    \cup (IF pcRun = "in" THEN {"on_message"} ELSE {})
    \cup (IF pcTick = "in" THEN {"tick_once"} ELSE {})

\* C1: on_message, tick_once and add_player on the room are mutually
\* exclusive: at no moment are two of them in progress.
C1_MutualExclusion == Cardinality(InProgress) <= 1

\* one of the operations is in progress while the other two tasks wait for
\* the lock: a message is in the channel, the timer has fired, a session is
\* about to add its player
C1_Witness ==
    /\ pcTick = "in" /\ pcRun = "recv" /\ inq # <<>>
    /\ \E c \in Conns : cphase[c] = "joining"

\* the room has been registered and its code has been removed again
RoomRemoved == creator # NoConn /\ ~Registered(creator)

\* C2: a room whose code has been removed from the registry has no
\* connection.
C2_RemovedRoomIsEmpty == RoomRemoved => Connected = {}

\* the room has had a player and has no connection
RoomEmptied == game.players # {} /\ Connected = {}
RoomClosed == pcRun = "done" /\ pcTick = "done" /\ ~Registered(creator)

\* C3: whenever the room's connection set becomes empty, run_room and the
\* tick loop eventually terminate and the code is eventually removed from
\* the registry.
C3_EmptyRoomCloses == RoomEmptied ~> RoomClosed

\* C4: every player id that is a value of `connections` is a key of
\* `players`.
C4_ConnectionsHaveSessions == Range(connections) \subseteq DOMAIN players

\* two players are connected after one has joined and left
C4_Witness ==
    /\ Cardinality(Connected) = 2
    /\ Cardinality(game.players) = 3
    /\ last.op = "add_player"

\* C5: while the connection set is not empty, at most one of the players
\* mapped from the connections holds the host flag.
C5_AtMostOneHost == Connected # {} => Cardinality(Hosts) <= 1

\* the host has left, the other player was promoted, and a StartGame has
\* been applied since
C5_Witness ==
    /\ Cardinality(game.players) = 2
    /\ Cardinality(Connected) = 1
    /\ Hosts = Range(connections)
    /\ game.active_players # {}
    /\ \E u \in game.players \ Range(connections) : player[u].host

HostLeft ==
    /\ last.op = "on_message"
    /\ last.kind = "Disconnected"
    /\ last.host
    /\ Connected # {}

\* C6: when the Disconnected of the host has been applied and a player
\* remains, exactly one remaining player holds the host flag, and the
\* PlayerDisconnected notice names the departed id and that player's id;
\* every remaining session whose channel is open receives it.
C6_HostLeaves ==
    HostLeft =>
        \E h \in Range(connections) :
            /\ Hosts = {h}
            /\ \A c \in Conns :
                  /\ sent[c] \in {<<>>, <<PlayerDisconnectedMsg(last.uuid, h)>>}
                  /\ c \in Connected /\ rxOpen[c] => sent[c] # <<>>

\* the host has left two other players, and both have been told
C6_Witness ==
    /\ HostLeft
    /\ Cardinality(Connected) = 2
    /\ \A c \in Connected : sent[c] # <<>>

\* C7: every PlayerDisconnected(departed, host) carries the id of the player
\* that holds the host flag after the disconnect, whoever departs, as long
\* as a player remains connected.
C7_NoticeNamesHost ==
    \A c \in Conns : \A i \in DOMAIN sent[c] :
        sent[c][i].kind = "PlayerDisconnected" /\ Connected # {}
            => sent[c][i].host \in Hosts

\* C8: a StartGame from a connection whose player is not the host, or from
\* an unknown connection, leaves the Game unchanged and sends nothing; the
\* Game is re-initialized by a StartGame of the host only.
C8_OnlyHostStarts ==
    [][/\ (OnMessageStep /\ last'.kind = "StartGame" /\ ~last'.host)
            => game' = game /\ player' = player /\ sent' = NoneSent
       /\ ~(game'.active_players \subseteq game.active_players)
            => OnMessageStep /\ last'.kind = "StartGame" /\ last'.host]_vars

\* a player that is not the host has asked for a start while a round was on
C8_Witness ==
    /\ last.op = "on_message"
    /\ last.kind = "StartGame"
    /\ ~last.host
    /\ last.uuid # NilUuid
    /\ game.active_players # {}

HostStarted ==
    /\ last.op = "on_message"
    /\ last.kind = "StartGame"
    /\ last.host

\* C9: when the host's StartGame has been applied, every connected session
\* whose channel is open has received the GameState of the freshly
\* initialized game and then RoundStarted, and nothing else; no Move of the
\* new round has been applied.
C9_StartBroadcasts ==
    HostStarted =>
        /\ game.active_players = game.players
        /\ game.grid = GridNew
        /\ \A u \in game.players : player[u].direction = "Unchanged"
        /\ \A c \in Conns :
              /\ sent[c] \in {<<>>, <<GameStateMsg(GameState(game, player)),
                                      RoundStartedMsg>>}
              /\ c \in Connected /\ rxOpen[c] => sent[c] # <<>>

\* C9 as stated: every connected session receives the two messages,
\* whatever the state of its outbound channel
C9_EverySessionReceives ==
    HostStarted =>
        \A c \in Connected :
            sent[c] = <<GameStateMsg(GameState(game, player)), RoundStartedMsg>>

\* the host has started a round with two players connected
C9_Witness ==
    /\ HostStarted
    /\ Cardinality(Connected) = 2
    /\ \A c \in Connected : Len(sent[c]) = 2

\* C10: the messages of one connection are applied in the order the
\* connection sent them, and while on_message is applying a message no
\* other step changes the room or its Game.
C10_OrderedAndAtomic ==
    /\ [](\A c \in Conns : \A i \in DOMAIN applied[c] : applied[c][i] = i)
    /\ [][pcRun = "in" /\ pcRun' = "in"
            => UNCHANGED <<game, player, connections, players>>]_vars

\* two messages of one connection have been applied, and one of the other
\* connection's in between or around them
C10_Witness ==
    \E c, d \in Conns :
        /\ c # d
        /\ Len(applied[c]) >= 2
        /\ Len(applied[d]) >= 1

\* the step in which on_message returns from a Move
MoveStep == OnMessageStep /\ Received.kind = "Move"

\* the step in which tick_once has advanced the Game
GameTickStep == pcTick = "in" /\ ticks' = ticks + 1

\* C11: Game::on_move fails exactly when the id is not in active_players, and
\* then nothing of the Game changes; otherwise it sets that player's turn
\* intent and nothing else, and the next tick turns the player by it.  A
\* Move, failing or not, does not end run_room while a connection remains.
C11_MoveOnlyForActive ==
    [][/\ MoveStep =>
            LET id == SenderUuid(Received.from)
                r == GameOnMove(game, player, id, Received.direction)
            IN /\ r.ok <=> id \in game.active_players
               /\ game' = game
               /\ ~r.ok => player' = player
               /\ r.ok => player' = [player EXCEPT ![id].direction = Received.direction]
               /\ Connected # {} => pcRun' = "recv"
       /\ GameTickStep =>
            \A u \in game.active_players :
                player'[u].rotation = Turn(player[u].rotation, player[u].direction)]_vars

\* a player that joined after the round had started has sent a Move, which
\* failed, and the round goes on
C11_Witness ==
    /\ last.op = "on_message"
    /\ last.kind = "Move"
    /\ last.uuid \in game.players \ game.active_players
    /\ GameRunning(game)
    /\ pcRun = "recv"

\* a step in which Game::tick has run
Ticked == ticks' = ticks + 1

\* the occupancy window of a player at its position, both ends included on
\* both axes; empty when the position is on a wall
Window(p) ==
    LET xr == PixelRange(p.x, Width, p.line_width)
        yr == PixelRange(p.y, Height, p.line_width)
    IN IF xr = <<>> \/ yr = <<>> THEN {}
       ELSE (xr[1] .. xr[2]) \X (yr[1] .. yr[2])

\* C12: in a tick, a visible active player whose new window holds a cell
\* that lies outside its previous window and was claimed before the tick is
\* removed from active_players in that tick, for every line width.
C12_ClaimedCellRemoves ==
    [][Ticked =>
         \A u \in game.active_players :
            (/\ ~player'[u].invisible
             /\ \E cell \in Window(player'[u]) :
                   /\ OutsidePrev(player[u], cell)
                   /\ game.grid[cell] # NilUuid)
            => u \notin game'.active_players]_vars

\* C13: if in one tick the new windows of two visible active players hold
\* the same cell, which neither had in its previous window, both players
\* are out of active_players after the tick, in whatever order the tick
\* takes them.
C13_HeadOnRemovesBoth ==
    [][Ticked =>
         \A u, v \in game.active_players :
            (/\ u # v
             /\ ~player'[u].invisible
             /\ ~player'[v].invisible
             /\ \E cell \in Window(player'[u]) \cap Window(player'[v]) :
                   /\ OutsidePrev(player[u], cell)
                   /\ OutsidePrev(player[v], cell))
            => u \notin game'.active_players /\ v \notin game'.active_players]_vars

\* the position Player::tick computes for p before it clamps it
Unclamped(p) ==
    LET rot == Turn(p.rotation, p.direction)
    IN <<p.x + QuarterTurns[rot + 1][1] * p.line_width,
         p.y + QuarterTurns[rot + 1][2] * p.line_width>>

\* Player::tick moves p and clamps its position to a wall
ClampedAtWall(p) ==
    /\ p.stop_count - 10 <= 0
    /\ \/ Unclamped(p)[1] < 0 \/ Unclamped(p)[1] > Width
       \/ Unclamped(p)[2] < 0 \/ Unclamped(p)[2] > Height

\* C14: a visible active player whose position Player::tick clamps to a
\* wall, x = 0 or any of the three others, is removed from active_players
\* by that tick.
C14_WallRemoves ==
    [][Ticked =>
         \A u \in game.active_players :
            ClampedAtWall(player[u]) /\ ~player'[u].invisible
            => u \notin game'.active_players]_vars

\* C15: in a tick, an active player that is invisible after its move is not
\* removed, no cell of the grid is newly marked with its id, and its
\* previous window is left as it was, whatever its position touches.
C15_InvisibleIsSkipped ==
    [][Ticked =>
         \A u \in game.active_players :
            player'[u].invisible =>
               /\ u \in game'.active_players
               /\ player'[u].x_prev_range = player[u].x_prev_range
               /\ player'[u].y_prev_range = player[u].y_prev_range
               /\ \A cell \in Cells :
                     game'.grid[cell] = u => game.grid[cell] = u]_vars

\* an invisible player has been moved onto a far wall and is still active,
\* in a game whose visible players mark cells
C15_Witness ==
    /\ ticks > 0
    /\ game.line_width > LineWidth
    /\ \E cell \in Cells : game.grid[cell] # NilUuid
    /\ \E u \in game.active_players :
          /\ player[u].invisible
          /\ player[u].x = Width \/ player[u].y = Height

\* the points a step awards to player u
Award(u) == player'[u].points - player[u].points

Eliminated == game.active_players \ game'.active_players

\* C16: in a round of several players, a player eliminated by a tick is
\* awarded 2^(total - r) points, where total is the size of `players` and r
\* the number of active players remaining after its removal.  (When a tick
\* eliminates several players r is one of the counts between the two ends
\* of the removal pass.)
C16_EliminationAward ==
    [][Ticked /\ ~game.single_player =>
         \A u \in Eliminated :
            \E r \in Cardinality(game'.active_players) ..
                     Cardinality(game.active_players) - 1 :
               Award(u) = 2 ^ (Cardinality(game.players) - r)]_vars

\* C17: in a round of several players the points awarded grow strictly
\* with the order of elimination: a player awarded points by a tick gets
\* more than every player eliminated by an earlier tick, and the survivor
\* gets more than the players the same tick eliminates.
C17_LaterScoresMore ==
    [][Ticked /\ ~game.single_player =>
         \A u \in game.active_players :
            Award(u) # 0 =>
               /\ \A v \in game.players \ game.active_players :
                     Award(u) > player[v].points
               /\ u \in game'.active_players =>
                     \A w \in Eliminated : Award(u) > Award(w)]_vars

\* three players: one eliminated by the first tick, one by the second, and
\* the survivor, with 1, 2 and 4 points
C17_Witness ==
    \E u, v, w \in game.players :
        /\ game.active_players = {w}
        /\ player[u].invisible_count = InvisibleMax - 1
        /\ player[v].invisible_count = InvisibleMax - 2
        /\ player[u].points = 1
        /\ player[v].points = 2
        /\ player[w].points = 4

\* C18: in a round initialized with one player no player's points change,
\* at most that player is active, also when others join during the round,
\* and running() is true exactly while it is active.
C18_SinglePlayerRound ==
    /\ [](game.single_player =>
            \E u \in game.players :
               /\ game.active_players \subseteq {u}
               /\ GameRunning(game) <=> u \in game.active_players)
    /\ [][game.single_player /\ game'.single_player =>
            \A u \in DOMAIN player : Award(u) = 0]_vars

\* the lone player of the round has been eliminated after a second player
\* had joined
C18_Witness ==
    /\ game.single_player
    /\ Cardinality(game.players) = 2
    /\ game.active_players = {}
    /\ ticks > 0
    /\ last.op = "tick_once"

Position(p) == <<p.x, p.y>>

\* C19: every player's position stays within 0 .. x_max and 0 .. y_max,
\* whatever its heading, its turn intent and the number of ticks, and only
\* initialize and tick change a position: change_direction does not.
C19_PositionClamped ==
    /\ [](\A u \in DOMAIN player :
            /\ 0 <= player[u].x /\ player[u].x <= Width
            /\ 0 <= player[u].y /\ player[u].y <= Height)
    /\ [][\A u \in DOMAIN player :
            Position(player'[u]) # Position(player[u])
            => Ticked \/ last'.op = "initialize"]_vars

\* after the last tick one player is held at a near wall and another at a
\* far wall, and a player has a turn intent
C19_Witness ==
    /\ ticks = MaxTicks
    /\ Turning # {}
    /\ \E u, v \in DOMAIN player :
          /\ player[u].x = 0 \/ player[u].y = 0
          /\ player[v].x = Width \/ player[v].y = Height

\* the code connection c's CreateRoom was given
Created(c) == room_name'[c] # room_name[c]

\* the room connection c created is live: c's read_stream has been given its
\* code and has not yet sent it on close_room
Live(c) == room_name[c] # "" /\ cphase[c] # "ended"

\* C20: whatever the interleaving of CreateRoom requests with each other,
\* with JoinRoom and with the closing of rooms, the code next_room_name
\* returns was absent from the registry and now holds the caller's handle,
\* no step replaces the handle under a code, and every live room is
\* registered under its own code, so that no two live rooms share one.
C20_FreshCode ==
    /\ [][\A c \in Conns :
            Created(c) => /\ room_name'[c] \notin DOMAIN rooms
                          /\ room_name'[c] \in DOMAIN rooms'
                          /\ rooms'[room_name'[c]] = c]_vars
    /\ [][\A k \in DOMAIN rooms \cap DOMAIN rooms' : rooms'[k] = rooms[k]]_vars
    /\ [](\A c \in Conns :
            Live(c) => /\ room_name[c] \in DOMAIN rooms
                       /\ rooms[room_name[c]] = c)
    /\ [](\A c, d \in Conns :
            Live(c) /\ Live(d) /\ c # d => room_name[c] # room_name[d])

\* two rooms are live under the two codes, and one of the codes is in its
\* second use: an earlier room under it has been removed
C20_Witness ==
    \E c, d, e \in Conns :
        /\ c # d
        /\ Live(c) /\ Live(d)
        /\ ~Live(e)
        /\ room_name[e] \in {room_name[c], room_name[d]}

\* the steps in which Room::broadcast is called: by tick_once, by
\* on_start_game, by on_client_disconnected and by add_player
StartStep ==
    /\ OnMessageStep /\ Received.kind = "StartGame"
    /\ StartGameAllowed(connections, player, Received.from)
LeaveStep ==
    OnMessageStep /\ Received.kind = "Disconnected" /\ Received.from \in Connected
JoinStep(c) == cphase[c] = "adding" /\ cphase'[c] = "joined"
BroadcastStep ==
    GameTickStep \/ StartStep \/ LeaveStep \/ \E c \in Conns : JoinStep(c)

\* the sessions a broadcast of this step fails to reach: connected before
\* and after the step, with the receiver of the outbound channel gone
Unreachable == {f \in Connected \cap DOMAIN connections' : ~rxOpen[f]}

\* C21: when a broadcast cannot be enqueued for one session, every other
\* connected session whose channel is open still receives it, the same
\* message for all, the unreachable session keeps its connection and its
\* session entry, and no loop of the room ends in that step.
C21_BroadcastGoesOn ==
    [][BroadcastStep /\ Unreachable # {} =>
         /\ \A c, d \in (Connected \cap DOMAIN connections') \ Unreachable :
               sent'[c] # <<>> /\ sent'[c] = sent'[d]
         /\ \A f \in Unreachable :
               /\ sent'[f] = <<>>
               /\ connections'[f] = connections[f]
               /\ connections'[f] \in DOMAIN players'
         /\ pcTick # "done" => pcTick' # "done"
         /\ pcRun # "done" => pcRun' # "done"]_vars

\* a tick's GameState has reached one session and not the other, whose
\* channel is closed; both are still connected and the tick loop goes on
C21_Witness ==
    /\ last.op = "tick_once" /\ last.kind = "GameState"
    /\ pcTick = "sleep" /\ pcRun = "recv"
    /\ \E f, c \in Connected :
          /\ ~rxOpen[f] /\ sent[f] = <<>>
          /\ rxOpen[c] /\ sent[c] # <<>>

\* add_player has returned Ok for the connection last.from
Joined == last.op = "add_player" /\ last.kind = "Ok"

\* C22: when add_player has succeeded, the joining connection has received
\* the JoinSuccess with its own id and nothing else, every other connected
\* session whose channel is open has received the NewPlayer notice of the
\* new player, and no other connection has received anything.
C22_NoticeToOthersOnly ==
    Joined =>
        /\ Len(sent[last.from]) = 1
        /\ sent[last.from][1].kind = "JoinSuccess"
        /\ sent[last.from][1].uuid = last.uuid
        /\ \A c \in Conns \ {last.from} :
              sent[c] = IF c \in Connected /\ rxOpen[c]
                        THEN <<NewPlayerMsg(player[last.uuid])>> ELSE <<>>

\* C23: whenever running() is false, get_winner() returns without failing
\* the id of one player, the only player of a single-player game and the
\* last active player otherwise; while running() is true it returns None.
C23_WinnerWhenNotRunning ==
    LET w == GetWinner(game) IN
    /\ ~w.panics
    /\ IF GameRunning(game) THEN w.some = {}
       ELSE /\ Cardinality(w.some) = 1
            /\ w.some \subseteq game.players
            /\ ~game.single_player => w.some = game.active_players

\* the step in which connection c's JoinRoom is answered with JoinFailed
JoinFails(c) ==
    last'.op = "join_failed" /\ last'.from = c /\ <<sent', last'>> # <<sent, last>>

\* C24: a JoinRoom that is answered with JoinFailed named a code that is not
\* registered; the answer is written to the requester and to nobody else,
\* the registry, the room and its tasks are unchanged, and the connection is
\* left where a further CreateRoom or JoinRoom of it is read and processed.
C24_JoinFailedOnly ==
    /\ [][\A c \in Conns : JoinFails(c) =>
            /\ Len(sent'[c]) = 1
            /\ sent'[c][1].kind = "JoinFailed"
            /\ sent'[c][1].room_name \notin DOMAIN rooms
            /\ \A d \in Conns \ {c} : sent'[d] = <<>>
            /\ UNCHANGED <<regVars, roomVars, taskVars, sessVars>>
            /\ cphase[c] = "new" /\ cphase' = cphase]_vars
    /\ [](last.op = "join_failed" /\ cphase[last.from] = "new" =>
            /\ ENABLED (\E k \in Codes : JoinRoom(last.from, k))
            /\ last.from \in Creators /\ creator = NoConn /\ NextRoomName(rooms) # {}
                 => ENABLED CreateRoom(last.from))

\* a connection whose JoinRoom failed has since sent a JoinRoom that found
\* the room
C24_Witness ==
    /\ last.op = "join_failed"
    /\ cphase[last.from] = "joining"
    /\ sent[last.from] # <<>>

\* a round is on in a room that has connections
RoundOn == RoomRunning(connections) /\ GameRunning(game)

\* C25: with the room's lock granted fairly, whenever the room has
\* connections and its game is running, a further Game tick is eventually
\* executed, unless the room loses its connections or the round ends first;
\* the intents queued for run_room do not matter.  (The runs of the model
\* end after MaxTicks ticks.)
C25_TicksNotStarved ==
    \A n \in 0 .. MaxTicks - 1 :
        (RoundOn /\ ticks = n) ~> (ticks > n \/ ~RoundOn)

\* the tick of this step has ended the round
RoundOver == GameTickStep /\ GameRunning(game) /\ ~GameRunning(game')

\* C26: the tick_once whose tick ends the round sends a RoundEnded to every
\* connected session whose channel is open.
C26_RoundEndedIsSent ==
    [][RoundOver =>
         \A c \in Connected :
            rxOpen[c] => \E i \in DOMAIN sent'[c] : sent'[c][i].kind = "RoundEnded"]_vars

\* C27: active_players is always a subset of players.  A tick leaves the
\* key set of players as it is and only shrinks active_players; a player
\* eliminated earlier is untouched and one eliminated now loses no point.
\* The next initialize makes every player active again, with the points it
\* had.
C27_EliminationKeepsPlayers ==
    /\ [](game.active_players \subseteq game.players)
    /\ [][Ticked =>
            /\ game'.players = game.players
            /\ game'.active_players \subseteq game.active_players
            /\ \A u \in game.players \ game.active_players : player'[u] = player[u]
            /\ \A u \in Eliminated : player'[u].points >= player[u].points]_vars
    /\ [][StartStep =>
            /\ game'.players = game.players
            /\ game'.active_players = game.players
            /\ \A u \in game.players : Award(u) = 0]_vars

\* a second round has been started in which a player eliminated in the
\* first is active again, with the point of its elimination
C27_Witness ==
    /\ HostStarted
    /\ ticks > 0
    /\ Cardinality(game.players) = 2
    /\ \E u \in game.active_players : player[u].points = 1

\* C28: after a tick, every cell of the window of a visible active player
\* that is off the walls is owned by that player, whether the tick removes
\* the player or not, unless another player's window covers the cell too.
C28_WindowIsStamped ==
    [][Ticked =>
         \A u \in game.active_players :
            ~player'[u].invisible =>
               \A cell \in Window(player'[u]) :
                  \/ game'.grid[cell] = u
                  \/ \E v \in game.active_players \ {u} :
                        cell \in Window(player'[v])]_vars

\* the step of Game::initialize
InitializeStep == last.op = "none" /\ last'.op = "initialize"

\* C29: after every Game::initialize, also one in the middle of a round,
\* every active player is visible with its countdown at invisible_max,
\* active_players equals players and no cell of the grid is claimed.
C29_InitializeResets ==
    [][InitializeStep =>
         /\ game'.active_players = game'.players
         /\ game'.grid = GridNew
         /\ \A u \in game'.active_players :
               /\ ~player'[u].invisible
               /\ player'[u].invisible_count = InvisibleMax]_vars

\* the messages of connection c in the room's channel
Queued(c) == {i \in DOMAIN inq : inq[i].from = c}

\* C30: when the inbound stream of a joined session ends, one Disconnected
\* of that connection is appended to the room's channel, behind everything
\* the connection has sent, and once the session's inbound bridge is done
\* no further message of the connection enters the channel.
C30_OneDisconnected ==
    /\ [][\A c \in Conns :
            rb[c] = "open" /\ rb'[c] = "done" =>
               inq' = Append(inq, ClientMsg(c, "Disconnected", "Unchanged",
                                            nframes[c] + 1))]_vars
    /\ [][\A c \in Conns :
            rb[c] = "done" =>
               Cardinality({i \in DOMAIN inq' : inq'[i].from = c})
                  <= Cardinality(Queued(c))]_vars

\* the tasks that hold the room's lock: a read_stream inside add_player, and
\* the task of the creator, which also runs run_room and tick
RoomLockHolders ==
    {c \in Conns : cphase[c] = "adding"}
    \cup (IF pcRun = "in" \/ pcTick = "in" THEN {creator} ELSE {})

\* the step that ends the operation for which a task holds a lock
RegistryRelease(t) ==
    \/ t \in Conns /\ (CreateRoom(t) \/ \E k \in Codes : JoinRoom(t, k))
    \/ t = CloseTask /\ CloseRoom
RoomRelease ==
    \/ \E c \in Conns : AddPlayer(c)
    \/ OnMove \/ OnInvalid \/ OnDisconnected \/ OnStartGame
    \/ TickOnce

\* C31: no task holds the registry's lock and the room's lock at once, and
\* a task that holds either lock waits for nothing: whatever the channels,
\* the timer and the sockets hold, the step that ends its operation and
\* releases the lock can be taken, so that no task waits for a lock for
\* ever, however create, join, message application and ticks interleave.
C31_LocksApart ==
    /\ rlock \notin RoomLockHolders
    /\ lock <=> RoomLockHolders # {}
    /\ rlock # Unlocked => ENABLED RegistryRelease(rlock)
    /\ lock => ENABLED RoomRelease

\* a joining connection holds the registry's lock while tick_once holds the
\* room's lock and a message waits in the room's channel
C31_Witness ==
    /\ rlock \in Conns \ {creator}
    /\ pcTick = "in"
    /\ pcRun = "recv" /\ inq # <<>>

\* the step in which on_message returns from a Disconnected of a connection
\* that is not in the room
UnknownLeaveStep ==
    OnMessageStep /\ Received.kind = "Disconnected" /\ Received.from \notin Connected

\* C32: a Disconnected of a connection that is not in the room, be it the
\* second of that connection, changes neither connections nor players nor
\* any player's host flag, and nothing is sent for it.
C32_SecondLeaveIsNoOp ==
    [][UnknownLeaveStep =>
         /\ UNCHANGED <<connections, players>>
         /\ DOMAIN player' = DOMAIN player
         /\ \A u \in DOMAIN player : player'[u].host = player[u].host
         /\ sent' = NoneSent]_vars

\* the second Disconnected of a connection has been applied while another
\* session, whose channel is open, is connected
C32_Witness ==
    /\ last.op = "on_message" /\ last.kind = "Disconnected"
    /\ last.from \notin Connected
    /\ Len(applied[last.from]) = 2
    /\ last.uuid = NilUuid
    /\ \E c \in Connected : rxOpen[c]

\* a round of several players has ended with a survivor
SurvivorLeft == ~game.single_player /\ Cardinality(game.active_players) = 1

\* the step in which tick_once returns
TickOnceStep == pcTick = "in" /\ pcTick' # "in"

\* C33: in a round of several players, the tick that leaves exactly one
\* active player awards the survivor the win bonus once, and from then on
\* until the host's next StartGame is applied no step advances the Game or
\* changes a player's points, and tick_once sends nothing.
C33_WinBonusOnce ==
    [][/\ GameTickStep /\ ~game'.single_player
                       /\ Cardinality(game'.active_players) = 1 =>
            \A u \in game'.active_players :
               Award(u) = 2 ^ (Cardinality(game.players) - 1)
       /\ SurvivorLeft /\ ~StartStep =>
            /\ game'.active_players = game.active_players
            /\ game'.grid = game.grid
            /\ ticks' = ticks
            /\ \A u \in DOMAIN player : Award(u) = 0
            /\ TickOnceStep => sent' = NoneSent]_vars

\* the timer has fired again after the tick that left the survivor, who
\* holds the bonus of a round of two
C33_Witness ==
    /\ SurvivorLeft
    /\ ticks > 0
    /\ last.op = "tick_once" /\ last.kind = ""
    /\ Connected # {}
    /\ \A u \in game.active_players : player[u].points = 2

\* the player ids of a GameState snapshot
SnapshotIds(msg) == {e.id : e \in msg.state}

\* C34: every player id in a GameState snapshot that the room has just
\* broadcast is the id of a player connected to the room.
C34_SnapshotOfConnected ==
    \A c \in Conns : \A i \in DOMAIN sent[c] :
        sent[c][i].kind = "GameState"
            => SnapshotIds(sent[c][i]) \subseteq Range(connections)

\* the numbers in q grow from its head to its tail
Ordered(q) == \A i, j \in DOMAIN q : i < j => q[i] < q[j]

C36_CreatorFirst ==
    Joined =>
        /\ \A i \in DOMAIN sent[last.from] :
              sent[last.from][i].kind = "JoinSuccess"
                  => sent[last.from][i].room_name = room_name[creator]
        /\ Cardinality(game.players) = 1 => last.from = creator

====
